---- MODULE Spec2Model ----
(***************************************************************************)
(* Model of the wgpu-example application shell (src/app.rs), its Renderer  *)
(* (src/renderer.rs), GPU context (src/gpu.rs) and Scene (src/scene.rs).   *)
(*                                                                         *)
(* Rust Option<T> values are modelled as sequences of length at most one:  *)
(* None is <<>> and Some(x) is <<x>>.                                      *)
(*                                                                         *)
(* One step of the model is one callback of the winit ApplicationHandler   *)
(* (resumed, window_event) run to completion, or one step of the host      *)
(* environment (clock tick, completion of the web construction task, the   *)
(* event loop stopping).  The callbacks run on a single thread, so a       *)
(* callback is atomic with respect to every other step.                    *)
(***************************************************************************)
EXTENDS Integers, Sequences, FiniteSets, TLC

\* ------------------------------------------------------------------------
\* Bounds of the model
\* ------------------------------------------------------------------------

\* Window widths range over 0..MaxDim (0 is a minimized window).
MaxDim == 1

\* The host clock runs from 0 to MaxTime.
MaxTime == 1

\* The host creates at most MaxWindows windows (one per successful resume).
MaxWindows == 2

\* GUI texture ids are 1..MaxTex.
MaxTex == 2

\* The set list and the free list of a texture delta have at most MaxDelta
\* entries each.
MaxDelta == 2

\* Renderer::new and Renderer::resize are also called directly with
\* widths and heights 0..MaxSide.
MaxSide == 2

\* The surface supports at most MaxFormats texture formats.
MaxFormats == 3

\* render_frame is also called directly with a delta_time of 0..MaxDelay
\* times DelayStep seconds, until MaxSeconds seconds have been passed in
\* all.
MaxDelay == 2

DelayStep == 3

MaxSeconds == 15
MaxClock == 3

\* ------------------------------------------------------------------------
\* Values
\* ------------------------------------------------------------------------

None == <<>>

Some(x) == <<x>>

IsSome(o) == o # <<>>

\* The sizes the host reports: the minimized window (0, 0) and the
\* widths 1..MaxDim at height 1.
Sizes == {<<0, 0>>} \cup {<<w, 1>> : w \in 1..MaxDim}

TexIds == 1..MaxTex

Platforms == {"desktop", "web"}

\* The window events the shell distinguishes (winit::event::WindowEvent):
\* KeyboardInput with physical key Escape, KeyboardInput with any other
\* key code, Resized, CloseRequested, RedrawRequested, and any other event.
EventKinds == {"KeyEscape", "KeyOther", "Resized", "CloseRequested",
               "RedrawRequested", "Other"}

Events == [kind : EventKinds \ {"Resized"}, size : {<<0, 0>>}]
            \cup [kind : {"Resized"}, size : Sizes]

\* Sequences over S of length at most n.
RECURSIVE SeqsUpTo(_, _)
SeqsUpTo(S, n) ==
    IF n = 0 THEN {<<>>}
    ELSE LET shorter == SeqsUpTo(S, n - 1)
         IN  shorter \cup {Append(s, x) : s \in shorter, x \in S}

\* egui::TexturesDelta: the list of textures to set and the list to free.
TextureDeltas == [set : SeqsUpTo(TexIds, MaxDelta), free : SeqsUpTo(TexIds, MaxDelta)]

\* The texture formats a surface may support (wgpu::TextureFormat); the
\* ones whose name ends in Srgb are the sRGB formats.
SurfaceFormats == {"Bgra8UnormSrgb", "Bgra8Unorm", "Rgba8UnormSrgb"}

\* wgpu::TextureFormat::is_srgb
IsSrgb(f) == f \in {"Bgra8UnormSrgb", "Rgba8UnormSrgb"}

\* The capabilities of the surface on a host whose preferred format is an
\* sRGB format, followed by its linear counterpart, and that offers two
\* present modes and two alpha modes.
HostCapabilities ==
    [formats |-> <<"Bgra8UnormSrgb", "Bgra8Unorm">>,
     present_modes |-> <<"Fifo", "Mailbox">>,
     alpha_modes |-> <<"Opaque", "PreMultiplied">>]

VARIABLES
    platform,           \* compile target: "desktop" or "web" (cfg target_arch)
    window,             \* App.window: Option of the window id
    renderer,           \* App.renderer: Option of a Renderer
    gui_state,          \* App.gui_state: Option of the egui_winit state
    last_render_time,   \* App.last_render_time: Option of an instant
    renderer_receiver,  \* App.renderer_receiver: Option of the receiver (web)
    last_size,          \* App.last_size
    panels_visible,     \* App.panels_visible
    channel,            \* the oneshot channel of the web construction task
    exit_requested,     \* event_loop.exit() has been called
    redraw_requested,   \* window.request_redraw() is pending delivery
    loop,               \* "running", "stopped" or "crashed" (panic)
    now,                \* the host clock (Instant::now())
    host_size,          \* the size the host reported last: the initial size
                        \* of the first window or canvas, or the size of the
                        \* latest Resized event
    windows_created,    \* number of windows the host has created
    surface_capabilities, \* what surface.get_capabilities(&adapter) returns
    elapsed,            \* the account of the frame times of the shell: the
                        \* instant at which resumed set last_render_time,
                        \* and the sum of the delta_time values the shell
                        \* has passed to render_frame
    handled,            \* what the callback run in the last step did
    frame               \* the commands captured in the last render_frame call

vars == <<platform, window, renderer, gui_state, last_render_time,
          renderer_receiver, last_size, panels_visible, channel,
          exit_requested, redraw_requested, loop, now, host_size,
          windows_created, surface_capabilities, elapsed, handled, frame>>

\* ------------------------------------------------------------------------
\* Gpu (src/gpu.rs)
\* ------------------------------------------------------------------------

\* Gpu::new_async, formats.iter().copied().find(|f| !f.is_srgb()): the
\* first format of the list that is not sRGB, None when there is none.
RECURSIVE FindNotSrgb(_)
FindNotSrgb(formats) ==
    IF formats = <<>> THEN None
    ELSE IF ~IsSrgb(Head(formats)) THEN Some(Head(formats))
    ELSE FindNotSrgb(Tail(formats))

\* The first supported format taken whatever it is.
SelectFirstFormat(formats) ==
    IF formats = <<>> THEN None ELSE Some(formats[1])

\* Gpu::new_async, the choice of the surface format:
\* find(..).unwrap_or(formats[0]).  The argument of unwrap_or is evaluated
\* whatever find returns, so an empty list panics on the index; None
\* stands for that panic.
SelectSurfaceFormat(formats) ==
    IF formats = <<>> THEN None
    ELSE LET found == FindNotSrgb(formats)
         IN  IF IsSome(found) THEN found ELSE Some(formats[1])

\* Gpu::new_async: the surface is bound to the window and configured with
\* the selected format, the given dimensions, the first present mode and
\* the first alpha mode of the capabilities, and a frame latency of 2; the
\* queue of the device holds no pending write.
GpuNewAsync(win, width, height) ==
    LET surface_format == SelectSurfaceFormat(surface_capabilities.formats)[1]
    IN  [window |-> win,
         queue |-> <<>>,
         surface_format |-> surface_format,
         surface_config |-> [format |-> surface_format,
                             width |-> width, height |-> height,
                             present_mode |-> surface_capabilities.present_modes[1],
                             alpha_mode |-> surface_capabilities.alpha_modes[1],
                             desired_maximum_frame_latency |-> 2]]

\* Gpu::resize building the surface configuration anew from the
\* capabilities of the surface.
GpuResizeNewConfig(gpu, width, height) ==
    [gpu EXCEPT !.surface_config =
        [format |-> surface_capabilities.formats[1],
         width |-> width, height |-> height,
         present_mode |-> surface_capabilities.present_modes[1],
         alpha_mode |-> surface_capabilities.alpha_modes[1],
         desired_maximum_frame_latency |-> 2]]

\* Gpu::resize: the width and the height of the surface configuration
\* are set and the surface is configured again.
GpuResize(gpu, width, height) ==
    [gpu EXCEPT !.surface_config.width = width,
                !.surface_config.height = height]

\* The depth texture created with a 24-bit depth format.
CreateDepthTexture24(gpu, live, width, height) ==
    [id |-> CHOOSE i \in 1..(Cardinality(live) + 1) :
                /\ i \notin live
                /\ \A j \in 1..(i - 1) : j \in live,
     width |-> width, height |-> height,
     format |-> "Depth24Plus"]

\* Gpu::create_depth_texture: a new texture of the device and a view of
\* it.  live is the set of texture ids the device has in use when the
\* texture is created; the device gives the new texture the lowest id
\* that is not in use.  The format is written out in the function.
CreateDepthTexture(gpu, live, width, height) ==
    [id |-> CHOOSE i \in 1..(Cardinality(live) + 1) :
                /\ i \notin live
                /\ \A j \in 1..(i - 1) : j \in live,
     width |-> width, height |-> height,
     format |-> "Depth32Float"]

\* Gpu::aspect_ratio, as the pair <<numerator, denominator>>.
Max(a, b) == IF a >= b THEN a ELSE b

\* The width divided by the height as it is.
AspectRatioUnguarded(gpu) ==
    <<gpu.surface_config.width, gpu.surface_config.height>>

AspectRatio(gpu) ==
    <<gpu.surface_config.width, Max(gpu.surface_config.height, 1)>>

\* ------------------------------------------------------------------------
\* Scene (src/scene.rs)
\* ------------------------------------------------------------------------

\* The rotation speed of Scene::update: 30_f32.to_radians() per second.
DegreesPerSecond == 30

\* A rotation matrix holds its angle up to full turns.
FullTurn == 360

\* size_of::<UniformBuffer>(): one 4x4 matrix of f32.
MatrixBytes == 64

\* UniformBuffer::default(): the zero matrix.
ZeroMatrix == [projection |-> <<0, 0>>, model |-> 0]

\* projection * view * model: the projection is determined by the aspect
\* ratio, the view is constant, and the model by its angle around Y, in
\* degrees.
Mvp(aspect_ratio, model) == [projection |-> aspect_ratio, model |-> model]

\* UniformBinding::new: a buffer of the device holding one default
\* UniformBuffer, and a bind group over the entire buffer.  allocated is
\* the number of buffers the device has allocated before.
UniformBindingNew(allocated) ==
    [buffer |-> [id |-> allocated + 1, size |-> MatrixBytes,
                 contents |-> ZeroMatrix],
     bind_group |-> [binding |-> 0, buffer |-> allocated + 1]]

\* update_buffer writing UniformBuffer::default() whatever it is given.
UpdateBufferDefault(uniform, queue, offset, uniform_buffer) ==
    Append(queue, [buffer |-> uniform.buffer.id, offset |-> offset,
                   size |-> MatrixBytes, data |-> ZeroMatrix])

\* UniformBinding::update_buffer: queue.write_buffer of one UniformBuffer
\* at the given byte offset of the buffer.  The result is the queue with
\* the write pending.
UpdateBuffer(uniform, queue, offset, uniform_buffer) ==
    Append(queue, [buffer |-> uniform.buffer.id, offset |-> offset,
                   size |-> MatrixBytes, data |-> uniform_buffer])

\* The rotation applied to the identity instead of the model.
RotateIdentity(model, degrees) == degrees % FullTurn

\* nalgebra_glm::rotate around the Y axis.
Rotate(model, degrees) == (model + degrees) % FullTurn

\* Renderer::DEPTH_FORMAT
DEPTH_FORMAT == "Depth32Float"

\* Scene::create_pipeline: the color target has the given surface format
\* and the depth-stencil state has Renderer::DEPTH_FORMAT.
CreatePipeline(surface_format) ==
    [color_target |-> surface_format, depth_format |-> DEPTH_FORMAT]

\* Scene::new: the vertex buffer and the index buffer, then the uniform
\* binding and the pipeline; the model transform is the identity (angle 0).
SceneNew(surface_format) ==
    [model |-> 0, uniform |-> UniformBindingNew(2),
     pipeline |-> CreatePipeline(surface_format)]

\* Scene::update writing at the offset of a second block of the buffer.
SceneUpdateNextBlock(scene, queue, aspect_ratio, delta_time) ==
    LET model == Rotate(scene.model, DegreesPerSecond * delta_time)
    IN  [scene |-> [scene EXCEPT !.model = model],
         queue |-> UpdateBuffer(scene.uniform, queue, MatrixBytes,
                                Mvp(aspect_ratio, model))]

\* Scene::update turning the model by the same angle in every frame.
SceneUpdateFixedStep(scene, queue, aspect_ratio, delta_time) ==
    LET model == Rotate(scene.model, DegreesPerSecond)
    IN  [scene |-> [scene EXCEPT !.model = model],
         queue |-> UpdateBuffer(scene.uniform, queue, 0,
                                Mvp(aspect_ratio, model))]

\* Scene::update: rotate the model by 30 degrees * delta_time and write
\* projection * view * model into the uniform buffer at offset 0.  The
\* result is the scene and the queue after the call.
SceneUpdate(scene, queue, aspect_ratio, delta_time) ==
    LET model == Rotate(scene.model, DegreesPerSecond * delta_time)
    IN  [scene |-> [scene EXCEPT !.model = model],
         queue |-> UpdateBuffer(scene.uniform, queue, 0,
                                Mvp(aspect_ratio, model))]

\* ------------------------------------------------------------------------
\* Renderer (src/renderer.rs)
\* ------------------------------------------------------------------------

\* Renderer::new: the Gpu, the depth texture view at the given size, the
\* GUI backend with an empty texture store, built for the format of the
\* surface configuration and for DEPTH_FORMAT, and the Scene, built for
\* the surface format of the Gpu.
RendererNew(win, width, height) ==
    LET gpu == GpuNewAsync(win, width, height)
    IN  [gpu |-> gpu,
         depth_texture_view |-> CreateDepthTexture(gpu, {}, width, height),
         egui_renderer |-> [textures |-> {},
                            output_color_format |-> gpu.surface_config.format,
                            output_depth_format |-> Some(DEPTH_FORMAT)],
         scene |-> SceneNew(gpu.surface_format)]

\* Renderer::resize with the depth texture view kept instead of recreated.
RendererResizeKeepDepth(r, width, height) ==
    [r EXCEPT !.gpu = GpuResize(r.gpu, width, height)]

\* Renderer::resize with the depth texture created from the surface
\* configuration before Gpu::resize has changed it.
RendererResizeDepthFirst(r, width, height) ==
    LET view == CreateDepthTexture(r.gpu, {r.depth_texture_view.id},
                                   r.gpu.surface_config.width,
                                   r.gpu.surface_config.height)
    IN  [r EXCEPT !.gpu = GpuResize(r.gpu, width, height),
                  !.depth_texture_view = view]

\* Renderer::resize: Gpu::resize, then a new depth texture view.  The old
\* view is dropped when the new one is assigned, so the old texture is
\* still in use while the new one is created.
RendererResize(r, width, height) ==
    LET gpu == GpuResize(r.gpu, width, height)
        view == CreateDepthTexture(gpu, {r.depth_texture_view.id}, width, height)
    IN  [r EXCEPT !.gpu = gpu, !.depth_texture_view = view]

\* One captured command of a render_frame call.
Cmd(op, arg) == [op |-> op, arg |-> arg]

\* The state threaded through render_frame: the Renderer, the commands
\* captured so far, and whether the call has panicked.
FrameState(r) == [renderer |-> r, log |-> <<>>, panicked |-> FALSE]

Record(st, op, arg) == [st EXCEPT !.log = Append(@, Cmd(op, arg))]

\* render_frame, step 1: Scene::update with the aspect ratio of the Gpu.
UpdateScene(st, delta_time) ==
    LET r == st.renderer
        upd == SceneUpdate(r.scene, r.gpu.queue, AspectRatio(r.gpu), delta_time)
        next == [st EXCEPT !.renderer.scene = upd.scene,
                           !.renderer.gpu.queue = upd.queue]
    IN  Record(Record(next, "scene_update", delta_time),
               "write_buffer", upd.queue[Len(upd.queue)].offset)

\* render_frame, step 2: egui_renderer.update_texture for every entry of
\* textures_delta.set, in list order.
RECURSIVE UploadTextures(_, _)
UploadTextures(st, set) ==
    IF set = <<>> THEN st
    ELSE LET id == Head(set)
             up == [st EXCEPT !.renderer.egui_renderer.textures = @ \cup {id}]
         IN  UploadTextures(Record(up, "update_texture", id), Tail(set))

\* The textures of the free list left in the store for the GUI draw.
RECURSIVE FreeTexturesDeferred(_, _)
FreeTexturesDeferred(st, free) ==
    IF free = <<>> THEN st ELSE FreeTexturesDeferred(st, Tail(free))

\* render_frame, step 3: egui_renderer.free_texture for every entry of
\* textures_delta.free, in list order.
RECURSIVE FreeTextures(_, _)
FreeTextures(st, free) ==
    IF free = <<>> THEN st
    ELSE LET id == Head(free)
             fr == [st EXCEPT !.renderer.egui_renderer.textures = @ \ {id}]
         IN  FreeTextures(Record(fr, "free_texture", id), Tail(free))

\* The textures freed before the uploads.
SyncTexturesFreeFirst(st, textures_delta) ==
    UploadTextures(FreeTextures(st, textures_delta.free), textures_delta.set)

\* render_frame, steps 2 and 3.
SyncTextures(st, textures_delta) ==
    FreeTextures(UploadTextures(st, textures_delta.set), textures_delta.free)

\* render_frame, steps 4 and 5: the command encoder, then
\* egui_renderer.update_buffers through that encoder, with the paint jobs
\* and the screen descriptor of the caller.
PrepareEncoder(st, screen_descriptor, paint_jobs) ==
    Record(Record(st, "create_command_encoder", 0),
           "update_buffers",
           [paint_jobs |-> paint_jobs, screen_descriptor |-> screen_descriptor])

\* The acquisition tried again after a failure, and the frame carried on.
AcquireSurfaceTextureRetry(st, acquire_ok) ==
    LET first == Record(st, "get_current_texture", 0)
        again == IF acquire_ok THEN first
                 ELSE Record(first, "get_current_texture", 0)
    IN  Record(again, "create_view", st.renderer.gpu.surface_format)

\* render_frame, steps 6 and 7: get_current_texture().expect(..) panics
\* when the surface texture cannot be acquired; otherwise a view of the
\* texture is created, in the surface format of the Gpu.
AcquireSurfaceTexture(st, acquire_ok) ==
    IF acquire_ok
    THEN Record(Record(st, "get_current_texture", 0),
                "create_view", st.renderer.gpu.surface_format)
    ELSE [Record(st, "get_current_texture", 0) EXCEPT !.panicked = TRUE]

\* The number of render passes begun in the captured commands.
PassesBegun(log) ==
    Cardinality({i \in 1..Len(log) : log[i].op = "begin_render_pass"})

\* The format of the surface texture view created last in the captured
\* commands.
SurfaceTextureView(log) ==
    LET views == {i \in 1..Len(log) : log[i].op = "create_view"}
    IN  log[CHOOSE i \in views : \A j \in views : j <= i].arg

\* begin_render_pass: the pass, then the two attachments of its
\* descriptor: the surface texture view as color attachment and the depth
\* texture view as depth-stencil attachment, each captured with its format.
BeginRenderPass(st, pass) ==
    Record(Record(Record(st, "begin_render_pass", pass),
                  "color_attachment", SurfaceTextureView(st.log)),
           "depth_stencil_attachment", st.renderer.depth_texture_view.format)

\* The render pass with the GUI draw recorded before the scene draw.
RecordRenderPassGuiFirst(st) ==
    LET pass == PassesBegun(st.log) + 1
        begun == BeginRenderPass(st, pass)
        gui == Record(begun, "egui_render", pass)
        scene == Record(gui, "scene_render", pass)
    IN  Record(scene, "end_render_pass", pass)

\* The scene and the GUI recorded into a render pass each.
RecordRenderPassPerDraw(st) ==
    LET pass == PassesBegun(st.log) + 1
        first == BeginRenderPass(st, pass)
        scene == Record(Record(first, "scene_render", pass),
                        "end_render_pass", pass)
        second == BeginRenderPass(scene, pass + 1)
    IN  Record(Record(second, "egui_render", pass + 1),
               "end_render_pass", pass + 1)

\* render_frame, steps 8 to 11: one render pass; Scene::render, then
\* egui_renderer.render, are recorded into it; the pass is dropped at the
\* end of the block.
RecordRenderPass(st) ==
    LET pass == PassesBegun(st.log) + 1
        begun == BeginRenderPass(st, pass)
        scene == Record(begun, "scene_render", pass)
        gui == Record(scene, "egui_render", pass)
    IN  Record(gui, "end_render_pass", pass)

\* wgpu::Queue::submit, the pending writes: a write of the whole buffer
\* replaces the contents of the buffer it names before the submitted
\* commands run.
RECURSIVE ApplyWrites(_, _)
ApplyWrites(buffer, queue) ==
    IF queue = <<>> THEN buffer
    ELSE LET w == Head(queue)
             hit == w.buffer = buffer.id /\ w.offset = 0 /\ w.size = buffer.size
         IN  ApplyWrites(IF hit THEN [buffer EXCEPT !.contents = w.data]
                         ELSE buffer,
                         Tail(queue))

\* wgpu::Queue::submit: the pending writes reach the uniform buffer and
\* the queue is left empty.
QueueSubmit(r) ==
    [r EXCEPT !.scene.uniform.buffer = ApplyWrites(@, r.gpu.queue),
              !.gpu.queue = <<>>]

\* The frame presented before its command buffer is submitted.
PresentThenSubmit(st) ==
    LET presented == Record(st, "present", 0)
        finished == Record(presented, "finish", 0)
    IN  Record([finished EXCEPT !.renderer = QueueSubmit(@)], "submit", 1)

\* render_frame, steps 12 and 13: queue.submit(once(encoder.finish())),
\* then surface_texture.present().  The encoder is finished into one
\* command buffer, and submit is captured with the number of command
\* buffers it is given.
SubmitAndPresent(st) ==
    LET finished == Record(st, "finish", 0)
        submitted == Record([finished EXCEPT !.renderer = QueueSubmit(@)],
                            "submit", 1)
    IN  Record(submitted, "present", 0)

\* render_frame with Scene::update moved behind the presentation.
RenderFrameUpdateLast(r, screen_descriptor, paint_jobs, textures_delta, delta_time, acquire_ok) ==
    LET synced == SyncTextures(FrameState(r), textures_delta)
        encoder == PrepareEncoder(synced, screen_descriptor, paint_jobs)
        acquired == AcquireSurfaceTexture(encoder, acquire_ok)
    IN  IF acquired.panicked THEN acquired
        ELSE UpdateScene(SubmitAndPresent(RecordRenderPass(acquired)),
                         delta_time)

\* Renderer::render_frame.  paint_jobs is the set of the textures the
\* clipped primitives refer to.
RenderFrame(r, screen_descriptor, paint_jobs, textures_delta, delta_time, acquire_ok) ==
    LET updated == UpdateScene(FrameState(r), delta_time)
        synced == SyncTextures(updated, textures_delta)
        encoder == PrepareEncoder(synced, screen_descriptor, paint_jobs)
        acquired == AcquireSurfaceTexture(encoder, acquire_ok)
    IN  IF acquired.panicked THEN acquired
        ELSE SubmitAndPresent(RecordRenderPass(acquired))

\* ------------------------------------------------------------------------
\* App (src/app.rs)
\* ------------------------------------------------------------------------

NoEvent == [kind |-> "None", size |-> <<0, 0>>]

EmptyDelta == [set |-> <<>>, free |-> <<>>]

\* The record of a step that ran no callback of the shell.  calls names
\* the method of the Renderer a step called; size, textures_delta and
\* delta_time are the arguments of that call, and acquire_ok tells
\* whether the surface gave its current texture during the call.
Idle ==
    [kind |-> "none", event |-> NoEvent, polled |-> FALSE, adopted |-> FALSE,
     ready |-> FALSE, consumed |-> FALSE, calls |-> <<>>, exit |-> FALSE,
     redraw |-> FALSE, size |-> <<0, 0>>, textures_delta |-> EmptyDelta,
     delta_time |-> 0, acquire_ok |-> TRUE]

\* No frame time has been accounted.
NoneElapsed == [since |-> None, total |-> 0]

NoChannel == [state |-> "none", value |-> None, win |-> 0, size |-> <<0, 0>>]

\* App::default(): every Option is None, last_size is (0, 0), the panels
\* flag is false.  The host has created no window and the clock is at 0.
Init ==
    /\ platform \in Platforms
    /\ window = None
    /\ renderer = None
    /\ gui_state = None
    /\ last_render_time = None
    /\ renderer_receiver = None
    /\ last_size = <<0, 0>>
    /\ panels_visible = FALSE
    /\ channel = NoChannel
    /\ exit_requested = FALSE
    /\ redraw_requested = FALSE
    /\ loop = "running"
    /\ now = 0
    /\ host_size = <<0, 0>>
    /\ windows_created = 0
    /\ surface_capabilities = HostCapabilities
    /\ elapsed = NoneElapsed
    /\ handled = Idle
    /\ frame = <<>>

\* The desktop branch returning before a renderer is stored.
ConstructDeferred(win, size) == None

\* resumed, desktop branch of the first window: the renderer is built by
\* pollster::block_on before the callback returns.
ConstructBlocking(win, size) == Some(RendererNew(win, size[1], size[2]))

\* resumed, web branch of the first window: the oneshot channel whose
\* sender is moved into the spawned construction task, together with the
\* window handle and the canvas size.
SpawnConstruction(win, size) ==
    [state |-> "pending", value |-> None, win |-> win, size |-> size]

\* The handle taken for the first one whenever a window is created.
FirstWindowHandleAlways(w) == TRUE

\* resumed, first_window_handle: self.window.is_none() before the new
\* window is stored.
FirstWindowHandle(w) == w = None

\* App::resumed.  size is the size the host reports (the canvas size on
\* web, the inner size of the new window on desktop); canvas_ok tells
\* whether the canvas element is found (web); create_ok whether
\* create_window succeeds; construct_ok whether Renderer::new returns
\* rather than panics (desktop).
Resumed(size, canvas_ok, create_ok, construct_ok) ==
    LET web == platform = "web"
        win == windows_created + 1
        first_window_handle == FirstWindowHandle(window)
        size_web == IF web THEN size ELSE last_size
        constructed == construct_ok /\ surface_capabilities.formats # <<>>
        panic == \/ web /\ ~canvas_ok
                 \/ ~web /\ create_ok /\ first_window_handle /\ ~constructed
        created == create_ok /\ ~(web /\ ~canvas_ok)
        init == created /\ first_window_handle
    IN  /\ loop = "running"
        /\ windows_created < MaxWindows
        /\ last_size' = IF web /\ canvas_ok THEN size
                        ELSE IF init THEN size ELSE last_size
        /\ host_size' = IF init THEN size ELSE host_size
        /\ windows_created' = IF created THEN win ELSE windows_created
        /\ window' = IF created THEN Some(win) ELSE window
        /\ renderer' = IF init /\ ~web /\ constructed
                       THEN ConstructBlocking(win, size) ELSE renderer
        /\ channel' = IF init /\ web THEN SpawnConstruction(win, size_web)
                      ELSE channel
        /\ renderer_receiver' = IF init /\ web THEN Some("receiver")
                                ELSE renderer_receiver
        /\ gui_state' = IF init /\ ~panic THEN Some(win) ELSE gui_state
        /\ last_render_time' = IF init /\ ~panic THEN Some(now)
                               ELSE last_render_time
        /\ elapsed' = IF init /\ ~panic THEN [elapsed EXCEPT !.since = Some(now)]
                      ELSE elapsed
        /\ loop' = IF panic THEN "crashed" ELSE loop
        /\ handled' = [Idle EXCEPT !.kind = "resumed"]
        /\ frame' = <<>>
        /\ UNCHANGED <<platform, panels_visible, exit_requested,
                       redraw_requested, now, surface_capabilities>>

\* A closed channel taken for a received Renderer.
ReceiverReadyOrClosed(receiver, chan) ==
    IsSome(receiver) /\ chan.state \in {"sent", "canceled"}

\* window_event, wasm32 block: try_recv yields the Renderer when the task
\* has sent it.
ReceiverReady(receiver, chan) == IsSome(receiver) /\ chan.state = "sent"

\* The receiver kept after the Renderer has been received.
ReceiverKept(receiver, received) == receiver

\* window_event, wasm32 block: the receiver is set to None once the
\* Renderer has been received.
ReceiverAfterPoll(receiver, received) == IF received THEN None ELSE receiver

\* The let-else without the renderer.
AllPresentButRenderer(g, r, w, t) == IsSome(g) /\ IsSome(w) /\ IsSome(t)

\* window_event, the let-else: all of gui_state, renderer, window and
\* last_render_time are present.
AllPresent(g, r, w, t) == IsSome(g) /\ IsSome(r) /\ IsSome(w) /\ IsSome(t)

\* The answer of the GUI ignored.
ReachesMatchAlways(ready, consumed) == ready

\* window_event: an event gets to the match when the let-else finds every
\* field present and the GUI does not report the event as consumed.
ReachesMatch(ready, consumed) == ready /\ ~consumed

\* The keyboard arm without the test of the key code.
RequestsExitAnyKey(kind) == kind \in {"KeyEscape", "KeyOther", "CloseRequested"}

\* The match without the Escape arm.
RequestsExitCloseOnly(kind) == kind = "CloseRequested"

\* window_event, the match: the events on which event_loop.exit() is called.
RequestsExit(kind) == kind \in {"KeyEscape", "CloseRequested"}

\* The frame rendered at the end of the match, for every event but a resize.
RendersFrameAfterMatch(kind) == kind # "Resized"

\* window_event, the match: render_frame is called in the RedrawRequested
\* arm only.
RendersFrame(kind) == kind = "RedrawRequested"

\* The last render time left as it was set by resumed.
RenderTimeKept(redraw, instant, last) == last

\* window_event, RedrawRequested arm: *last_render_time = now.
RenderTimeAfter(redraw, instant, last) ==
    IF redraw THEN Some(instant) ELSE last

\* request_redraw() skipped after a redraw.
RequestsRedrawButAfterRedraw(kind) == kind # "RedrawRequested"

\* window_event, the last statement: window.request_redraw() is reached by
\* every event that got through the match.
RequestsRedraw(kind) == TRUE

\* The egui_wgpu::ScreenDescriptor of a frame: size_in_pixels.  The scale
\* factor of the window (pixels_per_point) is left out.
ScreenDescriptor(size) == [size_in_pixels |-> size]

\* The paint jobs of a GUI pass that refers to no texture.
NoPaintJobs == {}

\* App::window_event.  consumed is the answer of gui_state.on_window_event;
\* textures_delta and toggle_panels come from the GUI pass of a redraw;
\* acquire_ok tells whether get_current_texture succeeds.
WindowEvent(ev, consumed, textures_delta, toggle_panels, acquire_ok) ==
    LET polled == platform = "web" /\ IsSome(renderer_receiver)
        adopted == platform = "web" /\ ReceiverReady(renderer_receiver, channel)
        r0 == IF adopted THEN channel.value ELSE renderer
        ready == AllPresent(gui_state, r0, window, last_render_time)
        pass == ReachesMatch(ready, consumed)
        resize == pass /\ ev.kind = "Resized"
        redraw == pass /\ RendersFrame(ev.kind)
        delta_time == IF IsSome(last_render_time) THEN now - last_render_time[1]
                      ELSE 0
        fr == IF redraw /\ IsSome(r0)
              THEN RenderFrame(r0[1], ScreenDescriptor(last_size), NoPaintJobs,
                               textures_delta, delta_time, acquire_ok)
              ELSE FrameState(0)
        panic == redraw /\ fr.panicked
        exit == pass /\ RequestsExit(ev.kind)
        request == pass /\ ~panic /\ RequestsRedraw(ev.kind)
    IN  /\ loop = "running"
        /\ channel' = IF adopted THEN [channel EXCEPT !.state = "received",
                                                      !.value = None]
                      ELSE channel
        /\ renderer_receiver' = ReceiverAfterPoll(renderer_receiver, adopted)
        /\ renderer' = IF resize /\ IsSome(r0)
                       THEN Some(RendererResize(r0[1], ev.size[1], ev.size[2]))
                       ELSE IF redraw /\ IsSome(r0) THEN Some(fr.renderer)
                       ELSE r0
        /\ last_size' = IF resize THEN ev.size ELSE last_size
        /\ last_render_time' = RenderTimeAfter(redraw, now, last_render_time)
        /\ elapsed' = IF redraw THEN [elapsed EXCEPT !.total = @ + delta_time]
                      ELSE elapsed
        /\ panels_visible' = IF redraw /\ toggle_panels THEN ~panels_visible
                             ELSE panels_visible
        /\ exit_requested' = (exit_requested \/ exit)
        /\ redraw_requested' = IF request THEN TRUE
                               ELSE IF ev.kind = "RedrawRequested" THEN FALSE
                               ELSE redraw_requested
        /\ loop' = IF panic THEN "crashed" ELSE loop
        /\ host_size' = IF ev.kind = "Resized" THEN ev.size ELSE host_size
        /\ handled' = [kind |-> "window_event", event |-> ev,
                       polled |-> polled, adopted |-> adopted,
                       ready |-> ready, consumed |-> consumed,
                       calls |-> IF resize THEN <<"resize">>
                                 ELSE IF redraw THEN <<"render_frame">>
                                 ELSE <<>>,
                       exit |-> exit, redraw |-> request,
                       size |-> IF resize THEN ev.size ELSE <<0, 0>>,
                       textures_delta |-> IF redraw THEN textures_delta
                                          ELSE EmptyDelta,
                       delta_time |-> IF redraw THEN delta_time ELSE 0,
                       acquire_ok |-> IF redraw THEN acquire_ok ELSE TRUE]
        /\ frame' = IF redraw THEN fr.log ELSE <<>>
        /\ UNCHANGED <<platform, window, gui_state, now, windows_created,
                       surface_capabilities>>

\* The construction task spawned on web completes: Renderer::new returns
\* and the Renderer is sent into the channel.
TaskSend ==
    /\ loop = "running"
    /\ channel.state = "pending"
    /\ surface_capabilities.formats # <<>>
    /\ channel' = [channel EXCEPT
                     !.state = "sent",
                     !.value = Some(RendererNew(channel.win, channel.size[1],
                                                channel.size[2]))]
    /\ handled' = Idle
    /\ frame' = <<>>
    /\ UNCHANGED <<platform, window, renderer, gui_state, last_render_time,
                   renderer_receiver, last_size, panels_visible,
                   exit_requested, redraw_requested, loop, now, host_size,
                   windows_created, surface_capabilities, elapsed>>

\* The construction task ends without sending: Renderer::new panics and
\* the sender is dropped.
TaskDrop ==
    /\ loop = "running"
    /\ channel.state = "pending"
    /\ channel' = [channel EXCEPT !.state = "canceled"]
    /\ handled' = Idle
    /\ frame' = <<>>
    /\ UNCHANGED <<platform, window, renderer, gui_state, last_render_time,
                   renderer_receiver, last_size, panels_visible,
                   exit_requested, redraw_requested, loop, now, host_size,
                   windows_created, surface_capabilities, elapsed>>

\* The host clock advances by one second, up to the limit.
TickTo(limit) ==
    /\ loop = "running"
    /\ now < limit
    /\ now' = now + 1
    /\ handled' = Idle
    /\ frame' = <<>>
    /\ UNCHANGED <<platform, window, renderer, gui_state, last_render_time,
                   renderer_receiver, last_size, panels_visible, channel,
                   exit_requested, redraw_requested, loop, host_size,
                   windows_created, surface_capabilities, elapsed>>

\* The host clock advances.
Tick == TickTo(MaxTime)

\* The event loop stops after event_loop.exit() has been called.
StopLoop ==
    /\ loop = "running"
    /\ exit_requested
    /\ loop' = "stopped"
    /\ handled' = Idle
    /\ frame' = <<>>
    /\ UNCHANGED <<platform, window, renderer, gui_state, last_render_time,
                   renderer_receiver, last_size, panels_visible, channel,
                   exit_requested, redraw_requested, now, host_size,
                   windows_created, surface_capabilities, elapsed>>

\* The host delivers a window event.  The GUI is asked whether it consumes
\* the event only when the shell is ready, and the GUI pass, the texture
\* delta and the surface texture are inputs of a redraw only.  consumable
\* holds the kinds of event the GUI may report as consumed, deltas the
\* texture deltas a GUI pass may produce, and toggles whether the GUI pass
\* may report a click on the panels checkbox.
WindowEventWith(consumable, deltas, toggles) ==
    \E ev \in Events :
        LET ready == AllPresent(gui_state,
                                IF platform = "web"
                                   /\ ReceiverReady(renderer_receiver, channel)
                                THEN channel.value ELSE renderer,
                                window, last_render_time)
        IN  \E consumed \in IF ready /\ ev.kind \in consumable
                             THEN BOOLEAN ELSE {FALSE} :
                IF ready /\ ~consumed /\ ev.kind = "RedrawRequested"
                THEN \E textures_delta \in deltas,
                        toggle_panels \in toggles, acquire_ok \in BOOLEAN :
                        WindowEvent(ev, consumed, textures_delta,
                                    toggle_panels, acquire_ok)
                ELSE WindowEvent(ev, consumed, EmptyDelta, FALSE, TRUE)

\* The window events of a GUI whose passes change no texture: what
\* render_frame does with a texture delta does not depend on the shell,
\* and is covered by the direct calls of the Renderer.
WindowEventFrom(consumable) ==
    WindowEventWith(consumable, {EmptyDelta}, BOOLEAN)

\* The code asks the GUI about every event and returns when the answer is
\* "consumed", whatever the event.
WindowEventStep == WindowEventFrom(EventKinds)

\* The events that carry user input: keyboard and pointer events.
InputKinds == {"KeyEscape", "KeyOther", "Other"}

\* The same, with a GUI that consumes user input only.
InputConsumedStep == WindowEventFrom(InputKinds)

ResumedStep ==
    \E size \in Sizes, canvas_ok \in BOOLEAN, create_ok \in BOOLEAN,
       construct_ok \in BOOLEAN :
        Resumed(size, canvas_ok, create_ok, construct_ok)

Next ==
    \/ ResumedStep
    \/ WindowEventStep
    \/ TaskSend
    \/ TaskDrop
    \/ Tick
    \/ StopLoop

Spec == Init /\ [][Next]_vars

\* The shell under a GUI that consumes user input only.
NextInputConsumed ==
    \/ ResumedStep
    \/ InputConsumedStep
    \/ TaskSend
    \/ TaskDrop
    \/ Tick
    \/ StopLoop

SpecInputConsumed == Init /\ [][NextInputConsumed]_vars

\* The window events of a GUI whose passes, besides, report no click on
\* the panels checkbox.
QuietGuiStep == WindowEventWith(EventKinds, {EmptyDelta}, {FALSE})

\* The host delivers the redraw that the shell has requested.
RequestedRedraw ==
    /\ redraw_requested
    /\ \E consumed \in BOOLEAN, acquire_ok \in BOOLEAN :
           WindowEvent([kind |-> "RedrawRequested", size |-> <<0, 0>>],
                       consumed, EmptyDelta, FALSE, acquire_ok)

\* The shell with the host clock standing still (every delta_time is 0)
\* and a quiet GUI: neither takes part in the control flow of the shell.
NextClockStill ==
    \/ ResumedStep
    \/ QuietGuiStep
    \/ TaskSend
    \/ TaskDrop
    \/ StopLoop

\* The host delivers every redraw the shell requests.
LiveSpec == Init /\ [][NextClockStill]_vars /\ WF_vars(RequestedRedraw)

\* The host delivers a redraw event; the GUI is asked about it when the
\* shell is ready.
RedrawStep ==
    \E consumed \in BOOLEAN, acquire_ok \in BOOLEAN :
        /\ WindowEvent([kind |-> "RedrawRequested", size |-> <<0, 0>>],
                       consumed, EmptyDelta, FALSE, acquire_ok)
        /\ handled'.consumed => handled'.ready

\* The host clock advances over a longer time.
LongTick == TickTo(MaxClock)

\* The shell under redraw events only, over a longer time.
NextClock ==
    \/ ResumedStep
    \/ RedrawStep
    \/ TaskSend
    \/ LongTick

ClockSpec == Init /\ [][NextClock]_vars

\* ------------------------------------------------------------------------
\* The Renderer called directly
\* ------------------------------------------------------------------------

\* The sizes Renderer::new and Renderer::resize are called with.
Sides == (0..MaxSide) \X (0..MaxSide)

\* The values of delta_time render_frame is called with.
Delays == {k * DelayStep : k \in 0..MaxDelay}

\* The lists of formats a surface may report.
FormatLists == SeqsUpTo(SurfaceFormats, MaxFormats)

\* The caller holds window 1 and no Renderer yet.  now is the caller's
\* clock: the sum of the delta_time values passed to render_frame.
InitCaller ==
    /\ platform = "desktop"
    /\ window = Some(1)
    /\ renderer = None
    /\ gui_state = None
    /\ last_render_time = None
    /\ renderer_receiver = None
    /\ last_size = <<0, 0>>
    /\ panels_visible = FALSE
    /\ channel = NoChannel
    /\ exit_requested = FALSE
    /\ redraw_requested = FALSE
    /\ loop = "running"
    /\ now = 0
    /\ host_size = <<0, 0>>
    /\ windows_created = 1
    /\ elapsed = NoneElapsed
    /\ handled = Idle
    /\ frame = <<>>

\* What a direct call of the Renderer leaves alone.
CallerUnchanged ==
    UNCHANGED <<platform, window, gui_state, last_render_time,
                renderer_receiver, last_size, panels_visible, channel,
                exit_requested, redraw_requested, host_size,
                windows_created, surface_capabilities, elapsed>>

\* Renderer::new(window, width, height) called; it panics when the
\* surface supports no format.
RendererNewCall(size) ==
    LET ok == IsSome(SelectSurfaceFormat(surface_capabilities.formats))
    IN  /\ loop = "running"
        /\ renderer = None
        /\ renderer' = IF ok THEN Some(RendererNew(window[1], size[1], size[2]))
                       ELSE None
        /\ loop' = IF ok THEN loop ELSE "crashed"
        /\ handled' = [Idle EXCEPT !.kind = "call", !.calls = <<"new">>,
                                   !.size = size]
        /\ frame' = <<>>
        /\ now' = now
        /\ CallerUnchanged

\* Renderer::resize(width, height) called.
RendererResizeCall(size) ==
    /\ loop = "running"
    /\ renderer # None
    /\ renderer' = Some(RendererResize(renderer[1], size[1], size[2]))
    /\ handled' = [Idle EXCEPT !.kind = "call", !.calls = <<"resize">>,
                               !.size = size]
    /\ frame' = <<>>
    /\ UNCHANGED <<loop, now>>
    /\ CallerUnchanged

\* Renderer::render_frame called with the screen descriptor of the
\* current surface configuration; it panics when the surface texture
\* cannot be acquired.
RenderFrameCall(paint_jobs, textures_delta, delta_time, acquire_ok) ==
    LET config == renderer[1].gpu.surface_config
        fr == RenderFrame(renderer[1],
                          ScreenDescriptor(<<config.width, config.height>>),
                          paint_jobs, textures_delta, delta_time, acquire_ok)
    IN  /\ loop = "running"
        /\ renderer # None
        /\ now + delta_time <= MaxSeconds
        /\ renderer' = Some(fr.renderer)
        /\ loop' = IF fr.panicked THEN "crashed" ELSE loop
        /\ handled' = [Idle EXCEPT !.kind = "call",
                                   !.calls = <<"render_frame">>,
                                   !.textures_delta = textures_delta,
                                   !.delta_time = delta_time,
                                   !.acquire_ok = acquire_ok]
        /\ frame' = fr.log
        /\ now' = now + delta_time
        /\ CallerUnchanged

RendererNewStep == \E size \in Sides : RendererNewCall(size)

RendererResizeStep == \E size \in Sides : RendererResizeCall(size)

\* render_frame called with any delay and no change of textures.
RenderFrameStep ==
    \E delta_time \in Delays, acquire_ok \in BOOLEAN :
        RenderFrameCall(NoPaintJobs, EmptyDelta, delta_time, acquire_ok)

\* The paint jobs of a caller: they refer to no texture or to every one.
PaintJobs == {NoPaintJobs, TexIds}

\* render_frame called with any texture delta, paint jobs that refer to
\* no texture or to all of them, and no delay.
TextureFrameStep ==
    \E textures_delta \in TextureDeltas, paint_jobs \in PaintJobs,
       acquire_ok \in BOOLEAN :
        RenderFrameCall(paint_jobs, textures_delta, 0, acquire_ok)

\* render_frame called with no delay, no change of textures and a surface
\* that gives its texture.
QuietFrameStep == RenderFrameCall(NoPaintJobs, EmptyDelta, 0, TRUE)

\* The Renderer driven by a caller that passes any size and any delay, on
\* the host of Init.
InitRenderer == InitCaller /\ surface_capabilities = HostCapabilities

NextRenderer ==
    \/ RendererNewStep
    \/ RendererResizeStep
    \/ RenderFrameStep

RendererSpec == InitRenderer /\ [][NextRenderer]_vars

\* The Renderer driven by a caller that passes any texture delta.
NextTextures ==
    \/ RendererNewStep
    \/ TextureFrameStep

TextureSpec == InitRenderer /\ [][NextTextures]_vars

\* The texture deltas that upload or free one texture.
SingleDeltas ==
    {[set |-> <<id>>, free |-> <<>>] : id \in TexIds}
        \cup {[set |-> <<>>, free |-> <<id>>] : id \in TexIds}

\* render_frame called with a delta of one texture and any delay.
SingleTextureFrameStep ==
    \E textures_delta \in SingleDeltas, delta_time \in Delays :
        RenderFrameCall(NoPaintJobs, textures_delta, delta_time, TRUE)

\* The Renderer resized between frames that change the texture store.
NextResize ==
    \/ RendererNewStep
    \/ RendererResizeStep
    \/ SingleTextureFrameStep

ResizeSpec == InitRenderer /\ [][NextResize]_vars

\* Renderer::new, Renderer::resize and quiet frames on a surface that
\* reports any list of formats.
InitFormats ==
    /\ InitCaller
    /\ surface_capabilities
         \in {[HostCapabilities EXCEPT !.formats = formats] :
                  formats \in FormatLists}

NextFormats ==
    \/ RendererNewStep
    \/ RendererResizeStep
    \/ QuietFrameStep

FormatSpec == InitFormats /\ [][NextFormats]_vars

\* ------------------------------------------------------------------------
\* Properties
\* ------------------------------------------------------------------------

\* The positions of a command in the captured frame.
Positions(log, op) == {i \in 1..Len(log) : log[i].op = op}

\* The last step ran window_event.
EventHandled == handled.kind = "window_event"

\* The last step called Renderer::render_frame.
FrameCalled == handled.calls = <<"render_frame">>

\* The last step called Renderer::resize.
ResizeCalled == handled.calls = <<"resize">>

\* The fields the let-else of window_event asks for are all present.
ShellReady ==
    /\ window # <<>>
    /\ renderer # <<>>
    /\ gui_state # <<>>
    /\ last_render_time # <<>>

\* C1: in every render_frame call the scene draw is recorded strictly
\* before the GUI draw, both into the one render pass of that frame, while
\* that pass is open; a call that presents a frame has recorded both.
C1_SceneDrawBeforeGuiDraw ==
    FrameCalled =>
        LET begins == Positions(frame, "begin_render_pass")
            ends == Positions(frame, "end_render_pass")
            scenes == Positions(frame, "scene_render")
            guis == Positions(frame, "egui_render")
        IN  /\ Cardinality(begins) <= 1
            /\ Cardinality(scenes) <= 1
            /\ Cardinality(guis) <= 1
            /\ \A g \in guis :
                 \E b \in begins, sc \in scenes, e \in ends :
                    /\ b < sc /\ sc < g /\ g < e
                    /\ frame[sc].arg = frame[b].arg
                    /\ frame[g].arg = frame[b].arg
            /\ Positions(frame, "present") # {} => guis # {} /\ scenes # {}

\* C1 witness: a frame in which the GUI draw has been recorded.
C1_Witness ==
    /\ FrameCalled
    /\ Positions(frame, "egui_render") # {}
    /\ Positions(frame, "scene_render") # {}

\* The phase of render_frame a captured command belongs to.
PhaseOf(op) ==
    CASE op \in {"scene_update", "write_buffer"} -> 1
      [] op \in {"update_texture", "free_texture"} -> 2
      [] op = "create_command_encoder" -> 3
      [] op = "update_buffers" -> 4
      [] op \in {"get_current_texture", "create_view"} -> 5
      [] op \in {"begin_render_pass", "color_attachment",
                 "depth_stencil_attachment", "scene_render", "egui_render",
                 "end_render_pass"} -> 6
      [] op \in {"finish", "submit"} -> 7
      [] op = "present" -> 8

\* C2: in every render_frame call the phases occur in the order scene
\* update, GUI texture sync, encoder creation, GUI buffer sync,
\* surface-texture acquisition, render-pass recording, submission,
\* presentation: no command of a later phase precedes a command of an
\* earlier one, the phases up to the acquisition occur in every call, and
\* the later ones in every call that acquires the texture.
C2_PhaseOrder ==
    FrameCalled =>
        /\ \A i, j \in 1..Len(frame) :
             i < j => PhaseOf(frame[i].op) <= PhaseOf(frame[j].op)
        /\ \A op \in {"scene_update", "create_command_encoder",
                      "update_buffers", "get_current_texture"} :
             Cardinality(Positions(frame, op)) = 1
        /\ loop # "crashed" =>
             \A op \in {"begin_render_pass", "end_render_pass", "submit",
                        "present"} :
                Cardinality(Positions(frame, op)) = 1

\* C2 witness: a presented frame with a texture upload and a texture free.
C2_Witness ==
    /\ FrameCalled
    /\ Positions(frame, "update_texture") # {}
    /\ Positions(frame, "free_texture") # {}
    /\ Positions(frame, "present") # {}

\* The surface configuration has the given size.
ConfiguredAt(r, size) ==
    /\ r.gpu.surface_config.width = size[1]
    /\ r.gpu.surface_config.height = size[2]

\* C3 (as claimed): whenever a frame is recorded, the surface configuration
\* has the size the host reported last for the window or canvas (the
\* initial size or the size of the latest Resized event).
C3_SurfaceHasReportedSize ==
    FrameCalled /\ Positions(frame, "present") # {}
        => ConfiguredAt(renderer[1], host_size)

\* The depth texture view has the dimensions of the surface configuration.
DepthMatchesSurface(r) ==
    /\ r.depth_texture_view.width = r.gpu.surface_config.width
    /\ r.depth_texture_view.height = r.gpu.surface_config.height

\* The Renderer the shell holds, or the one waiting in the channel.
RendererAt(rend, chan) == IF rend # <<>> THEN rend ELSE chan.value

C4_Dimensions ==
    /\ renderer # <<>> => DepthMatchesSurface(renderer[1])
    /\ channel.value # <<>> =>
         /\ DepthMatchesSurface(channel.value[1])
         /\ ConfiguredAt(channel.value[1], channel.size)

C4_Step ==
    LET old == RendererAt(renderer, channel)
        new == RendererAt(renderer', channel')
    IN  \* a resize configures the surface with its arguments and creates a
        \* depth texture that is not the old one
        /\ handled'.calls = <<"resize">> /\ old # <<>> =>
             /\ ConfiguredAt(new[1], handled'.event.size)
             /\ new[1].depth_texture_view.id # old[1].depth_texture_view.id
        \* nothing else (render_frame included) changes the size or the texture
        /\ handled'.calls # <<"resize">> /\ old # <<>> =>
             /\ new # <<>>
             /\ new[1].gpu.surface_config = old[1].gpu.surface_config
             /\ new[1].depth_texture_view = old[1].depth_texture_view
        \* creation configures the surface with the arguments of creation
        /\ old = <<>> /\ renderer' # <<>> =>
             ConfiguredAt(renderer'[1], last_size')

\* C4: from creation on, the depth texture view has the dimensions of the
\* surface configuration, which are the arguments of the most recent
\* Renderer::resize, or of Renderer::new if there was none; every resize
\* creates a new depth texture, distinct from the one it replaces.
C4_DepthFollowsSurface == [](C4_Dimensions) /\ [][C4_Step]_vars

\* C4 witness: a frame rendered after a resize to a size other than the
\* size of creation.
C4_Witness ==
    /\ FrameCalled
    /\ renderer[1].depth_texture_view.id = 2
    /\ renderer[1].depth_texture_view.width = 1
    /\ renderer[1].scene.model > 0

\* C5: render_frame and resize are called only while the window, the
\* Renderer, the GUI input state and the frame-timing state are all
\* present.
C5_RendererCalledOnlyWhenReady == handled.calls # <<>> => ShellReady

\* C5 witness: Renderer::resize called in Ready on a Renderer whose scene an
\* earlier render_frame has already advanced.
C5_Witness == ResizeCalled /\ ShellReady /\ renderer[1].scene.model > 0

\* C6 (as claimed): every CloseRequested event and every Escape key event
\* makes the shell request the exit of the event loop, in any shell state.
C6_CloseAlwaysExits ==
    EventHandled /\ handled.event.kind \in {"CloseRequested", "KeyEscape"}
        => handled.exit /\ exit_requested

\* C6 (amended): a CloseRequested or Escape key event makes the shell
\* request the exit exactly when it is handled in Ready and the GUI does
\* not consume it.
C6_CloseExitsWhenReady ==
    EventHandled /\ handled.event.kind \in {"CloseRequested", "KeyEscape"}
        => /\ handled.exit <=> (ShellReady /\ ~handled.consumed)
           /\ handled.exit => exit_requested

\* C6 witness: an Escape key event handled in Ready has requested the exit.
C6_Witness ==
    /\ EventHandled
    /\ handled.event.kind = "KeyEscape"
    /\ ShellReady
    /\ handled.exit

C7_Adoption ==
    platform = "web" =>
        \* an event handled after the task has sent adopts the Renderer
        /\ EventHandled => channel.state # "sent"
        \* the adopting event finds the shell in Ready and is processed
        /\ handled.adopted =>
             /\ ShellReady
             /\ handled.ready
             /\ ~handled.consumed =>
                  /\ handled.event.kind = "RedrawRequested" => FrameCalled
                  /\ handled.event.kind = "Resized" => ResizeCalled
                  /\ handled.event.kind = "CloseRequested" => handled.exit
        \* the channel is discarded at adoption and not created again
        /\ renderer # <<>> =>
             /\ renderer_receiver = <<>>
             /\ channel.state = "received"
        \* the channel is not polled after adoption
        /\ handled.polled => handled.adopted \/ renderer = <<>>

C7_Step ==
    platform = "web" =>
        \* the Renderer appears in the shell only by adoption of what was sent
        /\ renderer = <<>> /\ renderer' # <<>> =>
             /\ handled'.adopted
             /\ channel.state = "sent"
             /\ renderer_receiver # <<>>
             /\ renderer'[1].gpu.window = channel.value[1].gpu.window
             /\ handled'.calls = <<>> => renderer' = channel.value
        \* and only once
        /\ renderer # <<>> => renderer' # <<>> /\ ~handled'.adopted
        /\ channel.state = "received" => channel' = channel

\* C7: on web the Renderer is adopted at the first window event handled
\* after the construction task has sent it, and only then; the adopting
\* event is processed in Ready; the channel is discarded at adoption and is
\* neither polled nor created again.
C7_AdoptedOnceAtFirstEvent == [](C7_Adoption) /\ [][C7_Step]_vars

\* C7 witness: the event that adopted the Renderer rendered a frame.
C7_Witness ==
    /\ platform = "web"
    /\ handled.adopted
    /\ FrameCalled
    /\ Positions(frame, "present") # {}

C8_Step ==
    /\ platform = "web" /\ handled'.kind = "window_event" /\ renderer' = <<>> =>
         /\ UNCHANGED <<window, renderer, gui_state, last_render_time,
                        renderer_receiver, last_size, panels_visible,
                        channel, exit_requested, redraw_requested>>
         /\ handled'.calls = <<>>
         /\ ~handled'.exit
         /\ ~handled'.redraw
         /\ ~redraw_requested'
    \* the event that reaches Ready carries out its own effects only
    /\ platform = "web" /\ renderer = <<>> /\ handled'.adopted =>
         /\ last_size' # last_size =>
              /\ handled'.event.kind = "Resized"
              /\ last_size' = handled'.event.size
         /\ handled'.calls = <<"resize">> => handled'.event.kind = "Resized"
         /\ handled'.calls = <<"render_frame">> =>
              handled'.event.kind = "RedrawRequested"
         /\ exit_requested' =>
              handled'.event.kind \in {"CloseRequested", "KeyEscape"}

\* C8: on web a window event handled while the Renderer has not arrived
\* changes no field of the shell, calls nothing on the Renderer and requests
\* neither exit nor redraw; since nothing of it is kept, the event that
\* reaches Ready carries out its own effects only.
C8_EventsDroppedUntilReady == [][C8_Step]_vars

\* C8 witness: a Resized event with a new size was handled on web while
\* the construction task was still running.
C8_Witness ==
    /\ platform = "web"
    /\ EventHandled
    /\ handled.event.kind = "Resized"
    /\ handled.event.size # last_size
    /\ window # <<>>
    /\ channel.state = "pending"

\* C9: on desktop the window is present only together with the Renderer,
\* the GUI input state and the frame-timing state (unless construction
\* panicked inside resumed), so a window event handled after the window
\* was created is handled in Ready; no channel exists.
C9_DesktopReadyAfterResume ==
    platform = "desktop" =>
        /\ window # <<>> /\ loop # "crashed" => ShellReady
        /\ EventHandled /\ window # <<>> => handled.ready /\ ShellReady
        /\ renderer_receiver = <<>>
        /\ channel.state = "none"

\* C9 witness: on desktop the first event after the resume rendered a frame.
C9_Witness ==
    /\ platform = "desktop"
    /\ EventHandled
    /\ FrameCalled
    /\ renderer[1].scene.model = 0
    /\ Positions(frame, "present") # {}

\* A redraw event got through to the match of window_event.
RedrawProcessed ==
    /\ EventHandled
    /\ handled.event.kind = "RedrawRequested"
    /\ ShellReady
    /\ ~handled.consumed

\* C10 (as claimed): every RedrawRequested event processed in Ready ends
\* with a request for another redraw.
C10_RedrawAlwaysRequested ==
    RedrawProcessed => handled.redraw /\ redraw_requested

\* A frame has been presented in the last step.
FramePresented == FrameCalled /\ Positions(frame, "present") # {}

\* The redraw loop has ended: exit was requested, the process panicked, or
\* the GUI consumed a redraw event.
RedrawLoopEnded ==
    \/ exit_requested
    \/ loop = "crashed"
    \/ (EventHandled /\ handled.event.kind = "RedrawRequested"
          /\ handled.consumed)

\* C10 (amended): a RedrawRequested event processed in Ready ends with a
\* request for another redraw unless the surface texture cannot be
\* acquired (the process panics); when the host delivers every requested
\* redraw, frames are presented again and again until exit is requested,
\* the process panics, or the GUI consumes a redraw event.
C10_RedrawLoop ==
    /\ [](RedrawProcessed /\ loop # "crashed"
            => handled.redraw /\ redraw_requested)
    /\ ([]<>FramePresented \/ [](FramePresented => <>RedrawLoopEnded))

\* C10 witness: on web a frame was presented by a redraw that came after
\* the adoption of the Renderer and a resize, and another redraw is
\* requested.
C10_Witness ==
    /\ platform = "web"
    /\ FramePresented
    /\ ~handled.adopted
    /\ handled.redraw
    /\ redraw_requested
    /\ renderer[1].depth_texture_view.id = 2

\* The uniform buffer of the Renderer the shell or the caller holds.
UniformBufferOf(rend) == rend[1].scene.uniform.buffer

C11_Frame ==
    FrameCalled =>
        /\ Cardinality(Positions(frame, "scene_update")) = 1
        /\ Cardinality(Positions(frame, "write_buffer")) = 1
        /\ \A u \in Positions(frame, "scene_update") :
             /\ frame[u].arg = handled.delta_time
             /\ \A d \in Positions(frame, "scene_render") : u < d
        /\ \A w \in Positions(frame, "write_buffer") :
             \A sb \in Positions(frame, "submit") : w < sb
        \* the submitted draw reads the transform of this frame
        /\ Positions(frame, "submit") # {} =>
             UniformBufferOf(renderer).contents
                 = Mvp(AspectRatio(renderer[1].gpu), renderer[1].scene.model)

C11_Step ==
    renderer # <<>> /\ renderer' # <<>> =>
        /\ handled'.calls = <<"render_frame">> =>
             renderer'[1].scene.model
                 = (renderer[1].scene.model
                      + DegreesPerSecond * handled'.delta_time) % FullTurn
        /\ handled'.calls # <<"render_frame">> =>
             renderer'[1].scene.model = renderer[1].scene.model

\* C11: every render_frame call runs Scene::update exactly once, with the
\* delta_time of the call and before the scene draw is recorded; its
\* uniform write is queued before the command buffer is submitted, so the
\* submitted draw reads the transform that includes this frame's rotation;
\* the model transform changes in no other call (resize included).
C11_SceneUpdatedOncePerFrame == [](C11_Frame) /\ [][C11_Step]_vars

\* C11 witness: a frame called with a positive delta_time was submitted
\* after a resize, and the buffer holds the rotated transform.
C11_Witness ==
    /\ FramePresented
    /\ handled.delta_time > 0
    /\ renderer[1].depth_texture_view.id = 2
    /\ UniformBufferOf(renderer).contents.model = renderer[1].scene.model
    /\ renderer[1].scene.model > 0

\* The commands of the last frame that follow the acquisition.
AfterAcquisition ==
    {i \in 1..Len(frame) :
        frame[i].op \in {"create_view", "begin_render_pass",
                         "color_attachment", "depth_stencil_attachment",
                         "scene_render", "egui_render", "end_render_pass",
                         "finish", "submit", "present"}}

C12_Frame ==
    /\ FrameCalled =>
         /\ Cardinality(Positions(frame, "get_current_texture")) = 1
         /\ ~handled.acquire_ok =>
              /\ loop = "crashed"
              /\ AfterAcquisition = {}
         /\ handled.acquire_ok => loop # "crashed"
    \* the pending uniform write of the failed frame never reaches the buffer
    /\ renderer # <<>> /\ renderer[1].gpu.queue # <<>> => loop = "crashed"

\* C12: when get_current_texture fails in a render_frame call, the call
\* panics: the acquisition was tried once, nothing is recorded, submitted
\* or presented after it, and no step of the program follows.
C12_AcquireFailureIsFatal == [](C12_Frame) /\ [][loop # "crashed"]_vars

\* C12 witness: a frame whose acquisition failed, after an earlier frame
\* had rotated the model.
C12_Witness ==
    /\ FrameCalled
    /\ ~handled.acquire_ok
    /\ loop = "crashed"
    /\ UniformBufferOf(renderer).contents.model > 0

\* The arguments of the captured calls of op, in the order of the calls.
RECURSIVE ArgsOf(_, _)
ArgsOf(log, op) ==
    IF log = <<>> THEN <<>>
    ELSE IF Head(log).op = op THEN <<Head(log).arg>> \o ArgsOf(Tail(log), op)
    ELSE ArgsOf(Tail(log), op)

\* C13: in every render_frame call the GUI backend gets one update_texture
\* call per entry of textures_delta.set and one free_texture call per entry
\* of textures_delta.free, with the ids of the entries in list order; every
\* upload precedes every free, and all of them precede the render pass.
C13_TextureSync ==
    FrameCalled =>
        /\ ArgsOf(frame, "update_texture") = handled.textures_delta.set
        /\ ArgsOf(frame, "free_texture") = handled.textures_delta.free
        /\ \A u \in Positions(frame, "update_texture") :
             \A f \in Positions(frame, "free_texture") : u < f
        /\ \A t \in Positions(frame, "update_texture")
                        \cup Positions(frame, "free_texture") :
             \A b \in Positions(frame, "begin_render_pass") : t < b

\* C13 witness: a presented frame whose delta sets two different textures
\* and frees one of them.
C13_Witness ==
    /\ FramePresented
    /\ Len(handled.textures_delta.set) = 2
    /\ handled.textures_delta.set[1] # handled.textures_delta.set[2]
    /\ handled.textures_delta.free = <<handled.textures_delta.set[1]>>

\* The fraction <<n, d>> has a divisor other than zero and equals p / q.
FractionIs(f, p, q) == f[2] # 0 /\ f[1] * q = p * f[2]

\* C14: for every surface size, aspect_ratio() is width / height when the
\* height is at least 1 and width / 1 when the height is 0; the divisor is
\* never zero; the projection written by a frame is built from that value.
C14_AspectRatio ==
    renderer # <<>> =>
        LET config == renderer[1].gpu.surface_config
            ratio == AspectRatio(renderer[1].gpu)
        IN  /\ config.height >= 1 => FractionIs(ratio, config.width, config.height)
            /\ config.height = 0 => FractionIs(ratio, config.width, 1)
            /\ FramePresented =>
                 UniformBufferOf(renderer).contents.projection = ratio

\* C14 witness: a frame presented on a surface of width 2 and height 0.
C14_Witness ==
    /\ FramePresented
    /\ renderer[1].gpu.surface_config.width = 2
    /\ renderer[1].gpu.surface_config.height = 0
    /\ UniformBufferOf(renderer).contents.projection = <<2, 1>>

\* The dimensions of the depth texture view.
DepthSize(r) == <<r.depth_texture_view.width, r.depth_texture_view.height>>

C15_Step ==
    /\ handled.calls = <<"resize">>
    /\ handled'.calls = <<"resize">>
    /\ handled'.size = handled.size
    => /\ renderer'[1].gpu.surface_config = renderer[1].gpu.surface_config
       /\ DepthSize(renderer'[1]) = DepthSize(renderer[1])
       /\ ConfiguredAt(renderer'[1], handled'.size)
       /\ DepthSize(renderer'[1]) = handled'.size
       /\ loop' = "running"

\* C15: a Renderer::resize(w, h) that directly follows a
\* Renderer::resize(w, h) with the same arguments leaves the surface
\* configuration and the dimensions of the depth texture as the first call
\* left them, and does not panic.
C15_ResizeIdempotent == [][C15_Step]_vars

\* C15 witness: the Renderer after new, resize(2, 1) and resize(2, 1)
\* again: the depth texture is the third one created, at 2 x 1.
C15_Witness ==
    /\ ResizeCalled
    /\ handled.size = <<2, 1>>
    /\ renderer[1].depth_texture_view.id = 1
    /\ DepthSize(renderer[1]) = <<2, 1>>
    /\ UniformBufferOf(renderer).contents = ZeroMatrix

\* The model transform after Scene::update calls with the given values of
\* delta_time, in order.
RECURSIVE ModelAfter(_, _, _)
ModelAfter(r, aspect_ratio, delta_times) ==
    IF delta_times = <<>> THEN r.scene.model
    ELSE LET upd == SceneUpdate(r.scene, r.gpu.queue, aspect_ratio,
                                Head(delta_times))
         IN  ModelAfter([r EXCEPT !.scene = upd.scene, !.gpu.queue = upd.queue],
                        aspect_ratio, Tail(delta_times))

\* C16: Scene::update accumulates the rotation: the angle of the model
\* transform is 30 degrees times the sum of the delta_time values passed so
\* far (as the angle of a rotation, up to full turns); updates with
\* delta_time 0 leave it unchanged, and one update with delta_time 2t
\* gives the same angle as two updates with delta_time t.
C16_RotationAccumulates ==
    renderer # <<>> =>
        LET r == renderer[1]
            ratio == AspectRatio(r.gpu)
        IN  /\ r.scene.model = (DegreesPerSecond * now) % FullTurn
            /\ ModelAfter(r, ratio, <<0, 0, 0>>) = r.scene.model
            /\ \A t \in Delays :
                 ModelAfter(r, ratio, <<2 * t>>) = ModelAfter(r, ratio, <<t, t>>)

\* C16 witness: after frames whose delta_time values sum to 15 seconds
\* the model has made one full turn and a quarter.
C16_Witness ==
    /\ FramePresented
    /\ now = 15
    /\ renderer[1].scene.model = 90

\* The step renders a frame on a Renderer that existed or arrives in it.
FrameStep == handled'.calls = <<"render_frame">> /\ loop' # "crashed"

\* The angle of the model before the step, whether the shell holds the
\* Renderer or the channel does.
ModelBefore == RendererAt(renderer, channel)[1].scene.model

C17_Advances == FrameStep => renderer'[1].scene.model > ModelBefore

\* C17 (as claimed): every rendered frame advances the rotation of the
\* model beyond its value in the previous frame.
C17_RotationStrictlyIncreases == [][C17_Advances]_vars

C17_Adds ==
    FrameStep =>
        /\ handled'.delta_time = now - last_render_time[1]
        /\ handled'.delta_time >= 0
        /\ last_render_time' = Some(now)
        /\ renderer'[1].scene.model
             = (ModelBefore + DegreesPerSecond * handled'.delta_time) % FullTurn
        /\ handled'.delta_time = 0 => renderer'[1].scene.model = ModelBefore

\* C17 (amended): every rendered frame adds 30 degrees times its
\* delta_time to the rotation of the model, where delta_time is the time
\* of the clock since the previous frame (since the resume, for the first
\* frame) and is never negative: the accumulated rotation never goes back,
\* and a frame rendered at the instant of the previous one leaves it as
\* it was.
C17_RotationNeverGoesBack == [][C17_Adds]_vars

\* C17 witness: a frame rendered at the instant of the previous frame,
\* which had turned the model by 30 degrees.
C17_Witness ==
    /\ FramePresented
    /\ ShellReady
    /\ handled.delta_time = 0
    /\ renderer[1].scene.model = 30

\* The write lies within the buffer and covers it from offset 0.
FullBlockWrite(buffer, offset, size) ==
    /\ offset = 0
    /\ size = buffer.size
    /\ offset + size <= buffer.size

C18_Buffer ==
    renderer # <<>> =>
        LET uniform == renderer[1].scene.uniform
        IN  /\ uniform.buffer.id = SceneNew(renderer[1].gpu.surface_format).uniform.buffer.id
            /\ uniform.buffer.size = MatrixBytes
            /\ uniform.bind_group.buffer = uniform.buffer.id
            /\ \A i \in 1..Len(renderer[1].gpu.queue) :
                 LET w == renderer[1].gpu.queue[i]
                 IN  /\ w.buffer = uniform.buffer.id
                     /\ FullBlockWrite(uniform.buffer, w.offset, w.size)
            /\ \A w \in Positions(frame, "write_buffer") :
                 FullBlockWrite(uniform.buffer, frame[w].arg, MatrixBytes)

C18_Step ==
    renderer # <<>> /\ renderer' # <<>> =>
        LET old == UniformBufferOf(renderer)
            new == UniformBufferOf(renderer')
        IN  /\ new.id = old.id
            /\ new.size = old.size
            /\ renderer'[1].scene.uniform.bind_group
                 = renderer[1].scene.uniform.bind_group
            \* the contents change only by the write of a submitted frame
            /\ new.contents # old.contents =>
                 /\ handled'.calls = <<"render_frame">>
                 /\ Positions(frame', "write_buffer") # {}
                 /\ Positions(frame', "submit") # {}
                 /\ new.contents = Mvp(AspectRatio(renderer'[1].gpu),
                                       renderer'[1].scene.model)

\* C18: after any sequence of frames and resizes the uniform buffer is the
\* buffer allocated at the creation of the Scene, with the size of one
\* matrix and bound as a whole; its contents change only by the buffer
\* write of a submitted frame, and every write of Scene::update is one
\* whole matrix at offset 0, within the buffer.
C18_UniformBufferFixed == [](C18_Buffer) /\ [][C18_Step]_vars

\* C18 witness: after a resize a frame has written a rotated transform
\* into the buffer allocated at creation.
C18_Witness ==
    /\ FramePresented
    /\ renderer[1].depth_texture_view.id = 2
    /\ UniformBufferOf(renderer).id = 3
    /\ UniformBufferOf(renderer).contents.model = 180
    /\ UniformBufferOf(renderer).contents.projection = <<1, 2>>

\* The positions of the formats of the list that are not sRGB.
NotSrgbAt(formats) == {i \in 1..Len(formats) : ~IsSrgb(formats[i])}

ConstructionStarted ==
    \/ renderer # <<>>
    \/ channel.state # "none"
    \/ (window # <<>> /\ loop = "crashed")

C20_Step ==
    \* a construction is started by a resume only, and only when none was
    /\ ~ConstructionStarted /\ ConstructionStarted' =>
         /\ handled'.kind = "resumed"
         /\ window = <<>>
    /\ ConstructionStarted =>
         /\ ConstructionStarted'
         /\ channel'.win = channel.win
         /\ channel'.size = channel.size
         /\ channel.state \in {"received", "canceled"} => channel' = channel
         /\ renderer = <<>> /\ renderer' # <<>> =>
              /\ channel.state = "sent"
              /\ renderer'[1].gpu.window = channel.value[1].gpu.window
    \* the Renderer the shell holds stays, and changes by its own calls only
    /\ renderer # <<>> =>
         /\ renderer' # <<>>
         /\ renderer'[1].gpu.window = renderer[1].gpu.window
         /\ renderer'[1].scene.uniform.buffer.id
              = renderer[1].scene.uniform.buffer.id
         /\ renderer' # renderer =>
              handled'.calls \in {<<"resize">>, <<"render_frame">>}

\* C20: after any sequence of resumes and window events at most one
\* construction of a Renderer has been started (by the resume that stores
\* the first window), and a Renderer the shell holds is never dropped or
\* replaced: it is changed by resize and render_frame only.
C20_RendererCreatedOnce == [][C20_Step]_vars

\* C20 witness: a frame rendered after a second resume, by the Renderer
\* built for the first window.
C20_Witness ==
    /\ FramePresented
    /\ windows_created = 2
    /\ window = <<2>>
    /\ renderer[1].gpu.window = 1

\* Matrices a caller may hand to update_buffer.
Matrices ==
    {ZeroMatrix} \cup {Mvp(a, m) : a \in {<<1, 1>>, <<2, 1>>}, m \in {0, 90}}

\* The Renderer after the given writes have been queued behind the
\* pending ones and the queue has been submitted.
AfterWrites(r, writes) ==
    QueueSubmit([r EXCEPT !.gpu.queue = writes])

\* C21: a matrix written into the uniform buffer with update_buffer at
\* offset 0 is what the buffer holds once the queue is submitted, and of
\* several matrices written before the submission the buffer holds the
\* last; a presented frame leaves in the buffer the matrix its
\* Scene::update wrote.
C21_UniformRoundTrip ==
    renderer # <<>> =>
        LET r == renderer[1]
            uniform == r.scene.uniform
        IN  /\ \A m1 \in Matrices, m2 \in Matrices :
                 LET one == UpdateBuffer(uniform, r.gpu.queue, 0, m1)
                     two == UpdateBuffer(uniform, one, 0, m2)
                 IN  /\ UniformBufferOf(<<AfterWrites(r, one)>>).contents = m1
                     /\ UniformBufferOf(<<AfterWrites(r, two)>>).contents = m2
                     /\ AfterWrites(r, two).gpu.queue = <<>>
            /\ FramePresented =>
                 uniform.buffer.contents = Mvp(AspectRatio(r.gpu), r.scene.model)

\* C21 witness: a presented frame whose Scene::update wrote the transform
\* turned by 90 degrees for a surface twice as wide as high, which the
\* buffer now holds.
C21_Witness ==
    /\ FramePresented
    /\ handled.delta_time = 3
    /\ renderer[1].gpu.queue = <<>>
    /\ UniformBufferOf(renderer).contents = Mvp(<<2, 1>>, 90)

\* The position of the one command of that name in the frame.
At(op) == CHOOSE i \in Positions(frame, op) : TRUE

\* C22: a render_frame call that acquires the surface texture opens one
\* command encoder and one render pass, closes the pass before the
\* encoder is finished, submits one command buffer in one submission and
\* presents one frame, after the submission.
C22_OneEncoderOnePass ==
    FrameCalled /\ handled.acquire_ok =>
        /\ \A op \in {"create_command_encoder", "begin_render_pass",
                      "end_render_pass", "finish", "submit", "present"} :
             Cardinality(Positions(frame, op)) = 1
        /\ At("create_command_encoder") < At("begin_render_pass")
        /\ At("begin_render_pass") < At("end_render_pass")
        /\ At("end_render_pass") < At("finish")
        /\ At("finish") < At("submit")
        /\ frame[At("submit")].arg = 1
        /\ At("submit") < At("present")
        /\ frame[At("end_render_pass")].arg = frame[At("begin_render_pass")].arg

\* C22 witness: a frame that acquired the texture after a resize, with
\* its pass closed, its encoder finished and its one command buffer
\* submitted before the presentation.
C22_Witness ==
    /\ FrameCalled
    /\ handled.acquire_ok
    /\ handled.delta_time = 6
    /\ renderer[1].depth_texture_view.id = 2
    /\ Positions(frame, "finish") # {}
    /\ frame[Len(frame)].op = "present"

\* C23: a RedrawRequested event handled while the shell is Ready and not
\* consumed by the GUI calls render_frame once, and so does each of two
\* such events in a row; render_frame is called while handling no other
\* event, and by no other callback.
C23_OneFramePerRedraw ==
    /\ EventHandled /\ handled.event.kind = "RedrawRequested"
          /\ handled.ready /\ ~handled.consumed =>
            /\ handled.calls = <<"render_frame">>
            /\ Cardinality(Positions(frame, "scene_update")) = 1
            /\ Cardinality(Positions(frame, "get_current_texture")) = 1
            /\ Cardinality(Positions(frame, "present")) <= 1
    /\ FrameCalled =>
            /\ EventHandled
            /\ handled.event.kind = "RedrawRequested"
            /\ handled.ready
            /\ ~handled.consumed
    /\ ~FrameCalled => frame = <<>>

\* C23 witness: a redraw event handled in Ready rendered and presented a
\* frame one second after the last render time.
C23_Witness ==
    /\ RedrawProcessed
    /\ FramePresented
    /\ handled.delta_time = 1
    /\ renderer[1].scene.model = 30
    /\ now = 1

\* The arguments of the commands of that name in the last frame.
FrameArgs(op) == {frame[i].arg : i \in Positions(frame, op)}

\* C24: the surface configuration, the color target of the Scene pipeline
\* and the GUI backend all have the surface format chosen at creation, and
\* the depth texture, the Scene pipeline and the GUI backend all have the
\* 32-bit float depth format, also after resizes; in every frame the view
\* of the surface texture and the color attachment have that surface
\* format and the depth-stencil attachment has that depth format.
C24_FormatsAgree ==
    renderer # <<>> =>
        LET r == renderer[1]
            chosen == SelectSurfaceFormat(surface_capabilities.formats)[1]
        IN  /\ r.gpu.surface_format = chosen
            /\ r.gpu.surface_config.format = chosen
            /\ r.scene.pipeline.color_target = chosen
            /\ r.egui_renderer.output_color_format = chosen
            /\ DEPTH_FORMAT = "Depth32Float"
            /\ r.depth_texture_view.format = DEPTH_FORMAT
            /\ r.scene.pipeline.depth_format = DEPTH_FORMAT
            /\ r.egui_renderer.output_depth_format = <<DEPTH_FORMAT>>
            /\ FrameCalled /\ handled.acquire_ok =>
                 /\ FrameArgs("create_view") = {chosen}
                 /\ FrameArgs("color_attachment") = {chosen}
                 /\ FrameArgs("depth_stencil_attachment") = {DEPTH_FORMAT}

\* C24 witness: a frame presented after a resize on a surface whose first
\* format is sRGB and whose second format was chosen.
C24_Witness ==
    /\ FramePresented
    /\ renderer[1].depth_texture_view.id = 2
    /\ Len(surface_capabilities.formats) = 3
    /\ IsSrgb(surface_capabilities.formats[1])
    /\ FrameArgs("color_attachment") = {surface_capabilities.formats[2]}
    /\ FrameArgs("depth_stencil_attachment") = {"Depth32Float"}

\* The Renderer with the surface configured at the size and the depth
\* texture view replaced, and nothing else changed.
ResizedOnly(r, size, view) ==
    [r EXCEPT !.gpu.surface_config.width = size[1],
              !.gpu.surface_config.height = size[2],
              !.depth_texture_view = view]

C25_Step ==
    handled'.calls = <<"resize">> =>
        LET old == renderer[1]
            new == renderer'[1]
        IN  /\ new = ResizedOnly(old, handled'.size, new.depth_texture_view)
            /\ new.gpu.surface_format = old.gpu.surface_format
            /\ new.gpu.surface_config.format = old.gpu.surface_config.format
            /\ new.gpu.surface_config.present_mode
                 = old.gpu.surface_config.present_mode
            /\ new.gpu.surface_config.alpha_mode
                 = old.gpu.surface_config.alpha_mode
            /\ new.gpu.surface_config.desired_maximum_frame_latency = 2
            /\ new.scene.model = old.scene.model
            /\ new.scene.uniform = old.scene.uniform
            /\ new.egui_renderer.textures = old.egui_renderer.textures
            /\ frame' = <<>>

\* C25: Renderer::resize changes the width and the height of the surface
\* configuration and the depth texture view, and nothing else: the
\* surface format, the present mode, the alpha mode, the frame latency of
\* 2, the model transform and the uniform buffer of the Scene, and the
\* texture store of the GUI backend are as they were.
C25_ResizeFrame == [][C25_Step]_vars

\* C25 witness: a resize to another size of a Renderer whose model is
\* turned, whose uniform buffer holds that transform and whose texture
\* store holds a texture.
C25_Witness ==
    /\ ResizeCalled
    /\ handled.size = <<2, 1>>
    /\ renderer[1].gpu.surface_config.width = 2
    /\ renderer[1].depth_texture_view.width = 2
    /\ renderer[1].scene.model = 90
    /\ UniformBufferOf(renderer).contents = Mvp(<<1, 2>>, 90)
    /\ renderer[1].egui_renderer.textures = {2}

\* The size of the screen descriptor the last frame was rendered with.
DescriptorSize ==
    frame[At("update_buffers")].arg.screen_descriptor.size_in_pixels

\* C26: at every render_frame call the size in pixels of the screen
\* descriptor, taken from last_size, is the width and the height of the
\* surface configuration of the Renderer.
C26_DescriptorMatchesSurface ==
    FrameCalled =>
        /\ DescriptorSize = last_size
        /\ ConfiguredAt(renderer[1], DescriptorSize)

\* The surface of the Renderer is configured, and its depth texture was
\* created, with a width and a height of at least 1.
NoZeroSide(r) ==
    /\ r.gpu.surface_config.width >= 1
    /\ r.gpu.surface_config.height >= 1
    /\ r.depth_texture_view.width >= 1
    /\ r.depth_texture_view.height >= 1

\* C27: every configuration of the surface and every creation of the
\* depth texture is done with a width and a height of at least 1,
\* whatever sizes the host reports, a Resized event of width 0 or height
\* 0 included.
C27_NoZeroSizedSurface ==
    /\ renderer # <<>> => NoZeroSide(renderer[1])
    /\ channel.value # <<>> => NoZeroSide(channel.value[1])
    /\ ResizeCalled => handled.size[1] >= 1 /\ handled.size[2] >= 1

\* C28: whenever the shell holds a window and a Renderer, the surface of
\* the Renderer belongs to that window.
C28_SurfaceOfHeldWindow ==
    window # <<>> /\ renderer # <<>> => renderer[1].gpu.window = window[1]

\* C29: a Renderer is held only together with a window, the GUI input
\* state and the last render time; the GUI input state and the last
\* render time are held together or not at all; the pending channel is
\* never held together with a Renderer, and only together with a window
\* and the GUI input state.
C29_FieldsPresentTogether ==
    /\ renderer # <<>> =>
         window # <<>> /\ gui_state # <<>> /\ last_render_time # <<>>
    /\ gui_state # <<>> <=> last_render_time # <<>>
    /\ ~(renderer_receiver # <<>> /\ renderer # <<>>)
    /\ renderer_receiver # <<>> => window # <<>> /\ gui_state # <<>>
    /\ platform = "desktop" => renderer_receiver = <<>>

\* C29 witness: on web an event polled the pending channel, which held no
\* Renderer yet, while the window, the GUI input state and the last
\* render time were present.
C29_Witness ==
    /\ platform = "web"
    /\ EventHandled
    /\ handled.polled
    /\ ~handled.adopted
    /\ renderer_receiver # <<>>
    /\ renderer = <<>>
    /\ window # <<>>
    /\ gui_state # <<>>
    /\ last_render_time # <<>>

\* The elements of a list.
Range(list) == {list[i] : i \in 1..Len(list)}

C30_Step ==
    handled'.calls = <<"render_frame">> =>
        LET before == renderer[1].egui_renderer.textures
            set == Range(handled'.textures_delta.set)
            free == Range(handled'.textures_delta.free)
            store == renderer'[1].egui_renderer.textures
            draws == Positions(frame', "egui_render")
        IN  \* the store is not changed from the sync to the GUI draw
            /\ \A d \in draws :
                 \A i \in Positions(frame', "update_texture")
                           \cup Positions(frame', "free_texture") : i < d
            /\ store = (before \cup set) \ free
            /\ \A id \in free : id \notin store

\* C30: at the GUI draw of a frame the texture store is the store before
\* the frame, with the textures of the set list added and then those of
\* the free list removed: a texture of the free list is absent at the
\* GUI draw of that frame, also when the set list holds it or the paint
\* jobs refer to it.
C30_StoreAtGuiDraw == [][C30_Step]_vars

\* C30 witness: a presented frame whose delta uploads textures 1 and 2
\* and frees texture 1, and whose paint jobs refer to both: the store
\* holds texture 2 only.
C30_Witness ==
    /\ FramePresented
    /\ handled.textures_delta = [set |-> <<1, 2>>, free |-> <<1>>]
    /\ FrameArgs("update_buffers")
         = {[paint_jobs |-> {1, 2},
             screen_descriptor |-> ScreenDescriptor(<<2, 1>>)]}
    /\ renderer[1].egui_renderer.textures = {2}

\* C31: the delta_time values the shell has passed to render_frame add up
\* to the time from the instant at which resumed set last_render_time to
\* the redraw processed last, and none is negative; the delta_time of the
\* first frame on web is the whole time since that instant, the
\* construction of the Renderer included.
C31_DeltaTimesAddUp ==
    /\ last_render_time # <<>> <=> elapsed.since # <<>>
    /\ last_render_time # <<>> =>
         elapsed.total = last_render_time[1] - elapsed.since[1]
    /\ FrameCalled =>
         /\ handled.delta_time >= 0
         /\ last_render_time = <<now>>
         /\ elapsed.total = now - elapsed.since[1]
         /\ handled.adopted => handled.delta_time = now - elapsed.since[1]

\* C31 witness: on web three frames with a delta_time of one second each,
\* the first one by the redraw that adopted the Renderer.
C31_Witness ==
    /\ platform = "web"
    /\ FramePresented
    /\ handled.delta_time = 1
    /\ elapsed = [since |-> <<0>>, total |-> 3]
    /\ renderer[1].scene.model = 90

\* The last step handled a close request or an Escape key event, in Ready
\* and not consumed by the GUI.
ExitEventHandled ==
    /\ EventHandled
    /\ handled.event.kind \in {"CloseRequested", "KeyEscape"}
    /\ handled.ready
    /\ ~handled.consumed

C32_Step == ~exit_requested /\ exit_requested' => ExitEventHandled'

\* C32: event_loop.exit() is called only while a CloseRequested event or
\* a keyboard event of the Escape key is handled, in Ready and not
\* consumed by the GUI: no other event and no other callback requests
\* the exit.
C32_ExitOnlyOnCloseOrEscape ==
    /\ [](handled.exit => ExitEventHandled)
    /\ [][C32_Step]_vars

\* C32 witness: on web an Escape key event, not consumed, requested the
\* exit after a frame had turned the model.
C32_Witness ==
    /\ platform = "web"
    /\ EventHandled
    /\ handled.event.kind = "KeyEscape"
    /\ handled.exit
    /\ exit_requested
    /\ renderer[1].scene.model = 30

C33_Step ==
    handled'.kind = "window_event" /\ handled'.consumed =>
        /\ RendererAt(renderer', channel') = RendererAt(renderer, channel)
        /\ last_size' = last_size
        /\ last_render_time' = last_render_time
        /\ panels_visible' = panels_visible
        /\ exit_requested' = exit_requested
        /\ ~handled'.exit
        /\ ~handled'.redraw
        /\ ~redraw_requested => ~redraw_requested'
        /\ handled'.calls = <<>>
        /\ frame' = <<>>
        /\ loop' = loop

\* C33: when the GUI reports a window event as consumed, the shell does
\* nothing further for it, whatever the event: the Renderer, last_size and
\* last_render_time are as they were, no method of the Renderer is
\* called, and neither the exit nor another redraw is requested.
C33_ConsumedEventIsNoOp == [][C33_Step]_vars

\* C33 witness: a Resized event of another size was consumed by the GUI
\* while no exit and no redraw was requested.
C33_Witness ==
    /\ EventHandled
    /\ handled.consumed
    /\ handled.event.kind = "Resized"
    /\ handled.event.size # last_size
    /\ ~ConfiguredAt(renderer[1], handled.event.size)
    /\ ~exit_requested
    /\ ~redraw_requested

\* The construction task has sent the Renderer and the shell has not
\* received it yet.
RendererSent == platform = "web" /\ channel.state = "sent"

\* C34: on web, once the construction task has sent the Renderer into
\* the channel, the shell eventually adopts it and is Ready, when the
\* host delivers the redraws the shell requests and no other event.
C34_SentRendererIsAdopted ==
    RendererSent ~> (renderer # <<>> \/ loop = "crashed")

\* The construction task has ended without sending a Renderer.
SenderDropped == channel.state = "canceled"

C35_State ==
    SenderDropped =>
        /\ platform = "web"
        /\ renderer = <<>>
        /\ renderer_receiver # <<>>
        /\ ~ShellReady
        /\ ~exit_requested
        /\ EventHandled =>
             /\ handled.polled
             /\ ~handled.adopted
             /\ ~handled.ready
             /\ handled.calls = <<>>
             /\ ~handled.exit
             /\ ~handled.redraw

C35_Step ==
    SenderDropped =>
        /\ channel' = channel
        /\ handled'.kind = "window_event" =>
             /\ UNCHANGED <<window, renderer, gui_state, last_render_time,
                            renderer_receiver, last_size, panels_visible,
                            exit_requested, loop>>
             /\ ~redraw_requested'
             /\ frame' = <<>>

\* C35: on web, when the construction task ends without sending a
\* Renderer, the shell never becomes Ready: the receiver is kept, every
\* later window event polls it in vain and changes nothing, no panic
\* follows from a window event and no exit is requested.
C35_DroppedSenderNeverReady == [](C35_State) /\ [][C35_Step]_vars

\* C35 witness: after the sender was dropped, a close request was polled
\* in vain and dropped, a second resume having created a second window.
C35_Witness ==
    /\ SenderDropped
    /\ EventHandled
    /\ handled.event.kind = "CloseRequested"
    /\ handled.polled
    /\ ~exit_requested
    /\ windows_created = 2
    /\ loop = "running"

C36_Step == exit_requested => handled'.calls = <<>>

\* C36: once event_loop.exit() has been called, the shell calls neither
\* render_frame nor Renderer::resize again, whatever events the host
\* delivers before the event loop stops.
C36_NoRendererCallAfterExit == [][C36_Step]_vars

====
